---- MODULE Spec2Model ----
(***************************************************************************)
(* Model of tools/grt-lin-reg-tool.cpp: main() and train().  The tool is a *)
(* single-threaded sequence of calls into the GRT library; the model keeps *)
(* the program position, the parser, train()'s locals, the dataset and     *)
(* pipeline objects, and the ordered trace of log lines and library calls. *)
(* Library calls whose outcome depends on the file system or on the data   *)
(* (load, train, save, parse's return value) return a nondeterministic     *)
(* success indicator.                                                      *)
(***************************************************************************)
EXTENDS Integers, Sequences, FiniteSets, TLC

\* ------------------------------------------------------------------ bounds
MaxJunk == 1        \* unrecognised tokens placed before the flags
MaxUInt == 3        \* largest dimension count written on the command line
MaxSamples == 2     \* largest sample count a loaded file reports
MaxTime == 1        \* largest training time the pipeline reports

\* ------------------------------------------------------- program constants
EXIT_SUCCESS == 0
EXIT_FAILURE == 1
NotExited == -1     \* main has not returned yet
defaultFilename == "linear-regression-model.grt"
MaxNumEpochs == 500
ValidationSetSize == 20

\* ------------------------------------------------------------ input sets
ProgName == "grt-lin-reg-tool"
Absent == "<absent>"
DatasetNames == {"data.grt", "data.csv"}
ModelNames == {"out.model"}
DimTexts == {ToString(n) : n \in 0..MaxUInt} \cup {"abc", "-1"}
FileDims == {1, 2}

VARIABLES argv, pc, parser,
          trainDatasetFilename, modelFilename,
          numInputDimensions, numTargetDimensions,
          trainingData, regression, pipeline,
          trainResult, exitStatus, trace

vars == <<argv, pc, parser, trainDatasetFilename, modelFilename,
          numInputDimensions, numTargetDimensions, trainingData, regression,
          pipeline, trainResult, exitStatus, trace>>

argc == Len(argv)

\* ------------------------------------------------------------ trace events
Log(stream, msg) == [kind |-> "log", stream |-> stream, msg |-> msg]

\* tested: the call's return value is the condition of an if statement
Call(name, arg, ret, tested) ==
    [kind |-> "call", name |-> name, arg |-> arg, ret |-> ret, tested |-> tested]

UsageLines ==
    << Log("info", "grt-lin-reg-tool [options]"),
       Log("info", "-f: sets the filename the training data will be loaded from."),
       Log("info", "-n: sets the number of input dimensions in the dataset"),
       Log("info", "-t: sets the number of target dimensions in the dataset"),
       Log("info", "--model: sets the filename the regression model will be saved to") >>

printUsage == UsageLines

\* --------------------------------------------------- command-line parser
NoResults == [k \in {} |-> ""]

addOption(opts, key, id) == (key :> id) @@ opts

RECURSIVE ParseFrom(_, _, _, _)
ParseFrom(args, i, opts, res) ==
    IF i > Len(args) THEN res
    ELSE IF args[i] \in DOMAIN opts /\ i + 1 <= Len(args)
         THEN ParseFrom(args, i + 2, opts, (opts[args[i]] :> args[i + 1]) @@ res)
         ELSE ParseFrom(args, i + 1, opts, res)

\* argv[0] is the program name
Parse(args, opts) == ParseFrom(args, 2, opts, NoResults)

IsUInt(s) == \E n \in 0..MaxUInt : ToString(n) = s

StrToUInt(s) == CHOOSE n \in 0..MaxUInt : ToString(n) = s

GetString(res, id, default) ==
    IF id \in DOMAIN res
    THEN [ok |-> TRUE, value |-> res[id]]
    ELSE [ok |-> FALSE, value |-> default]

GetUInt(res, id, default) ==
    IF id \in DOMAIN res /\ IsUInt(res[id])
    THEN [ok |-> TRUE, value |-> StrToUInt(res[id])]
    ELSE [ok |-> FALSE, value |-> default]

\* ------------------------------------------------------------------- Init
Flag(key, v) == IF v = Absent THEN << >> ELSE << key, v >>

RECURSIVE Junk(_)
Junk(n) == IF n = 0 THEN << >> ELSE << "-z" >> \o Junk(n - 1)

CommandLines ==
    { << >>, << ProgName >> } \cup
    { << ProgName >> \o Junk(j) \o Flag("-f", f) \o Flag("-n", n)
                     \o Flag("-t", t) \o Flag("--model", m) :
        j \in 0..MaxJunk, f \in DatasetNames \cup {Absent},
        n \in DimTexts \cup {Absent}, t \in DimTexts \cup {Absent},
        m \in ModelNames \cup {Absent} }

NoParser == [created |-> FALSE, warningLoggingEnabled |-> TRUE,
             options |-> NoResults, results |-> NoResults, parsed |-> FALSE]

NoData == [shapeSet |-> FALSE, N |-> 0, T |-> 0, numSamples |-> 0, loaded |-> FALSE]

NoRegression == [created |-> FALSE]

NoPipeline == [created |-> FALSE, trained |-> FALSE, trainingTime |-> 0]

Init ==
    /\ argv \in CommandLines
    /\ pc = "main"
    /\ parser = NoParser
    /\ trainDatasetFilename = ""
    /\ modelFilename = ""
    /\ numInputDimensions = 0
    /\ numTargetDimensions = 0
    /\ trainingData = NoData
    /\ regression = NoRegression
    /\ pipeline = NoPipeline
    /\ trainResult = FALSE
    /\ exitStatus = NotExited
    /\ trace = << >>

\* ------------------------------------------------------------------- main
TooFewArgs_OffByOne(n) == n < 1

TooFewArgs(n) == n < 2

\* if( argc < 2 ){ errorLog...; printUsage(); return EXIT_FAILURE; }
MainTooFewArgs ==
    /\ pc = "main"
    /\ TooFewArgs(argc)
    /\ trace' = trace \o << Log("error", "Not enough input arguments!") >> \o printUsage
    /\ exitStatus' = EXIT_FAILURE
    /\ pc' = "exit"
    /\ UNCHANGED <<argv, parser, trainDatasetFilename, modelFilename,
                   numInputDimensions, numTargetDimensions, trainingData,
                   regression, pipeline, trainResult>>

\* CommandLineParser parser; setWarningLoggingEnabled(false); addOption x 4
MainCreateParser ==
    /\ pc = "main"
    /\ ~TooFewArgs(argc)
    /\ parser' = [created |-> TRUE,
                  warningLoggingEnabled |-> FALSE,
                  options |-> addOption(addOption(addOption(addOption(NoResults,
                                  "-f", "filename"),
                                  "-n", "num-input-dimensions"),
                                  "-t", "num-target-dimensions"),
                                  "--model", "model-filename"),
                  results |-> NoResults,
                  parsed |-> FALSE]
    /\ pc' = "main_parse"
    /\ UNCHANGED <<argv, trainDatasetFilename, modelFilename,
                   numInputDimensions, numTargetDimensions, trainingData,
                   regression, pipeline, trainResult, exitStatus, trace>>

\* parser.parse( argc, argv );  -- the return value is discarded
MainParse ==
    /\ pc = "main_parse"
    /\ \E ret \in BOOLEAN :
          trace' = Append(trace, Call("parse", argc, ret, FALSE))
    /\ parser' = [parser EXCEPT !.results = Parse(argv, parser.options),
                                !.parsed = TRUE]
    /\ pc' = "train_get_filename"
    /\ UNCHANGED <<argv, trainDatasetFilename, modelFilename,
                   numInputDimensions, numTargetDimensions, trainingData,
                   regression, pipeline, trainResult, exitStatus>>

ExitStatusOf(trained) == IF trained THEN EXIT_SUCCESS ELSE EXIT_FAILURE

\* if( train( parser ) ){ infoLog << "Model Trained!"; return EXIT_SUCCESS; }
MainTrainSucceeded ==
    /\ pc = "main_after_train"
    /\ trainResult = TRUE
    /\ trace' = Append(trace, Log("info", "Model Trained!"))
    /\ exitStatus' = ExitStatusOf(trainResult)
    /\ pc' = "exit"
    /\ UNCHANGED <<argv, parser, trainDatasetFilename, modelFilename,
                   numInputDimensions, numTargetDimensions, trainingData,
                   regression, pipeline, trainResult>>

FailureReport_NoUsage == << Log("error", "Failed to train model!") >>

\* errorLog << "Failed to train model!" << endl; printUsage();
FailureReport == << Log("error", "Failed to train model!") >> \o printUsage

\* if train( parser ) returned false: report, then return EXIT_FAILURE;
MainTrainFailed ==
    /\ pc = "main_after_train"
    /\ trainResult = FALSE
    /\ trace' = trace \o FailureReport
    /\ exitStatus' = ExitStatusOf(trainResult)
    /\ pc' = "exit"
    /\ UNCHANGED <<argv, parser, trainDatasetFilename, modelFilename,
                   numInputDimensions, numTargetDimensions, trainingData,
                   regression, pipeline, trainResult>>

\* ------------------------------------------------------------------ train
FilenameMissing_Ignored(ok) == FALSE

FilenameMissing(ok) == ~ok

\* infoLog << "Training regression model..."; if( !parser.get("filename",...) )
TrainGetFilename ==
    /\ pc = "train_get_filename"
    /\ LET g == GetString(parser.results, "filename", "") IN
          /\ trainDatasetFilename' = g.value
          /\ IF FilenameMissing(g.ok)
             THEN /\ trace' = trace \o << Log("info", "Training regression model..."),
                                         Call("get", "filename", g.ok, TRUE),
                                         Log("error", "Failed to parse filename from command line! You can set the filename using the -f.") >>
                                   \o printUsage
                  /\ trainResult' = FALSE
                  /\ pc' = "main_after_train"
             ELSE /\ trace' = trace \o << Log("info", "Training regression model..."),
                                         Call("get", "filename", g.ok, TRUE) >>
                  /\ pc' = "train_get_model_filename"
                  /\ UNCHANGED trainResult
    /\ UNCHANGED <<argv, parser, modelFilename, numInputDimensions,
                   numTargetDimensions, trainingData, regression, pipeline,
                   exitStatus>>

ModelFilenameFrom_AlwaysDefault(res) == [ok |-> FALSE, value |-> defaultFilename]

ModelFilenameFrom(res) == GetString(res, "model-filename", defaultFilename)

\* parser.get("model-filename",modelFilename,defaultFilename);  -- result discarded
TrainGetModelFilename ==
    /\ pc = "train_get_model_filename"
    /\ LET g == ModelFilenameFrom(parser.results) IN
          /\ modelFilename' = g.value
          /\ trace' = Append(trace, Call("get", "model-filename", g.ok, FALSE))
    /\ pc' = "train_get_dimensions"
    /\ UNCHANGED <<argv, parser, trainDatasetFilename,
                   numInputDimensions, numTargetDimensions, trainingData,
                   regression, pipeline, trainResult, exitStatus>>

ShapeGiven_Either(okN, okT) == okN \/ okT

ShapeGiven(okN, okT) == okN /\ okT

\* if( parser.get("num-input-dimensions",..) && parser.get("num-target-dimensions",..) )
\*   trainingData.setInputAndTargetDimensions( numInputDimensions, numTargetDimensions );
\* The second get is evaluated only when the first returned true.
TrainGetDimensions ==
    /\ pc = "train_get_dimensions"
    /\ LET gn == GetUInt(parser.results, "num-input-dimensions", 0)
           gt == IF gn.ok THEN GetUInt(parser.results, "num-target-dimensions", 0)
                          ELSE [ok |-> FALSE, value |-> 0]
           calls == << Call("get", "num-input-dimensions", gn.ok, TRUE) >> \o
                    (IF gn.ok THEN << Call("get", "num-target-dimensions", gt.ok, TRUE) >>
                              ELSE << >>)
       IN
          /\ numInputDimensions' = gn.value
          /\ numTargetDimensions' = gt.value
          /\ IF ShapeGiven(gn.ok, gt.ok)
             THEN /\ trace' = trace \o calls \o
                        << Log("info", "num input dimensions: " \o ToString(gn.value)
                                       \o " num target dimensions: " \o ToString(gt.value)),
                           Call("setInputAndTargetDimensions", << gn.value, gt.value >>,
                                TRUE, FALSE) >>
                  /\ trainingData' = [trainingData EXCEPT !.shapeSet = TRUE,
                                                          !.N = gn.value,
                                                          !.T = gt.value]
             ELSE /\ trace' = trace \o calls
                  /\ UNCHANGED trainingData
    /\ pc' = "train_load"
    /\ UNCHANGED <<argv, parser, trainDatasetFilename, modelFilename,
                   regression, pipeline, trainResult, exitStatus>>

LoadFailed_Ignored(ok) == FALSE

LoadFailed(ok) == ~ok

\* infoLog << "- Loading Training Data..."; if( !trainingData.load( trainDatasetFilename ) )
TrainLoad ==
    /\ pc = "train_load"
    /\ \E ok \in BOOLEAN :
          IF LoadFailed(ok)
          THEN /\ trace' = trace \o << Log("info", "- Loading Training Data..."),
                                      Call("load", trainDatasetFilename, ok, TRUE),
                                      Log("error", "Failed to load training data!") >>
               /\ trainResult' = FALSE
               /\ pc' = "main_after_train"
               /\ UNCHANGED trainingData
          ELSE /\ trace' = trace \o << Log("info", "- Loading Training Data..."),
                                      Call("load", trainDatasetFilename, ok, TRUE) >>
               /\ \E k \in 1..MaxSamples, fn \in FileDims, ft \in FileDims :
                     trainingData' =
                        [trainingData EXCEPT
                            !.loaded = TRUE,
                            !.numSamples = k,
                            !.N = IF trainingData.shapeSet THEN @ ELSE fn,
                            !.T = IF trainingData.shapeSet THEN @ ELSE ft]
               /\ pc' = "train_configure"
               /\ UNCHANGED trainResult
    /\ UNCHANGED <<argv, parser, trainDatasetFilename, modelFilename,
                   numInputDimensions, numTargetDimensions, regression, pipeline,
                   exitStatus>>

\* diagnostics, LinearRegression regression; set...; pipeline.setRegressifier(...)
TrainConfigure ==
    /\ pc = "train_configure"
    /\ trace' = trace \o
          << Log("info", "- Num training samples: " \o ToString(trainingData.numSamples)),
             Log("info", "- Num input dimensions: " \o ToString(trainingData.N)),
             Log("info", "- Num target dimensions: " \o ToString(trainingData.T)) >>
    /\ regression' = [created |-> TRUE,
                      maxNumEpochs |-> MaxNumEpochs,
                      useValidationSet |-> TRUE,
                      validationSetSize |-> ValidationSetSize,
                      randomiseTrainingOrder |-> TRUE,
                      scaling |-> TRUE]
    /\ pipeline' = [pipeline EXCEPT !.created = TRUE]
    /\ pc' = "train_pipeline_train"
    /\ UNCHANGED <<argv, parser, trainDatasetFilename, modelFilename,
                   numInputDimensions, numTargetDimensions, trainingData,
                   trainResult, exitStatus>>

TimeReport(tm) == Log("info", "- TrainingTime: " \o ToString(tm))

TrainedReport_WithTime(tm) == << Log("info", "- Model trained!"), TimeReport(tm) >>

\* infoLog << "- Model trained!" << endl;
TrainedReport(tm) == << Log("info", "- Model trained!") >>

TrainFailed_Ignored(ok) == FALSE

TrainFailed(ok) == ~ok

\* infoLog << "- Training model..."; if( !pipeline.train( trainingData ) )
TrainPipelineTrain ==
    /\ pc = "train_pipeline_train"
    /\ \E ok \in BOOLEAN :
          IF TrainFailed(ok)
          THEN /\ trace' = trace \o << Log("info", "- Training model..."),
                                      Call("train", trainingData.numSamples, ok, TRUE),
                                      Log("error", "Failed to train model!") >>
               /\ trainResult' = FALSE
               /\ pc' = "main_after_train"
               /\ UNCHANGED pipeline
          ELSE /\ \E tm \in 0..MaxTime :
                     /\ pipeline' = [pipeline EXCEPT !.trained = TRUE,
                                                     !.trainingTime = tm]
                     /\ trace' = trace \o << Log("info", "- Training model..."),
                                            Call("train", trainingData.numSamples, ok, TRUE) >>
                                      \o TrainedReport(tm)
               /\ pc' = "train_save"
               /\ UNCHANGED trainResult
    /\ UNCHANGED <<argv, parser, trainDatasetFilename, modelFilename,
                   numInputDimensions, numTargetDimensions, trainingData,
                   regression, exitStatus>>

SaveOutcome(ok, path) ==
    IF ok THEN Log("info", "- Model saved.")
          ELSE Log("warning", "Failed to save model to file: " \o path)

\* infoLog << "- Saving model to: "; if( pipeline.save( modelFilename ) ) ... else warningLog
TrainSave ==
    /\ pc = "train_save"
    /\ \E ok \in BOOLEAN :
          trace' = trace \o << Log("info", "- Saving model to: " \o modelFilename),
                               Call("save", modelFilename, ok, TRUE),
                               SaveOutcome(ok, modelFilename) >>
    /\ pc' = "train_report_time"
    /\ UNCHANGED <<argv, parser, trainDatasetFilename, modelFilename,
                   numInputDimensions, numTargetDimensions, trainingData,
                   regression, pipeline, trainResult, exitStatus>>

\* infoLog << "- TrainingTime: " << pipeline.getTrainingTime(); return true;
TrainReportTime ==
    /\ pc = "train_report_time"
    /\ trace' = Append(trace, TimeReport(pipeline.trainingTime))
    /\ trainResult' = TRUE
    /\ pc' = "main_after_train"
    /\ UNCHANGED <<argv, parser, trainDatasetFilename, modelFilename,
                   numInputDimensions, numTargetDimensions, trainingData,
                   regression, pipeline, exitStatus>>

\* ------------------------------------------------------------ specification
Next ==
    \/ MainTooFewArgs
    \/ MainCreateParser
    \/ MainParse
    \/ TrainGetFilename
    \/ TrainGetModelFilename
    \/ TrainGetDimensions
    \/ TrainLoad
    \/ TrainConfigure
    \/ TrainPipelineTrain
    \/ TrainSave
    \/ TrainReportTime
    \/ MainTrainSucceeded
    \/ MainTrainFailed

Spec == Init /\ [][Next]_vars

\* every step is a synchronous call that returns: the program keeps stepping
FairSpec == Spec /\ WF_vars(Next)

TypeOK ==
    /\ pc \in {"main", "main_parse", "train_get_filename", "train_get_model_filename",
               "train_get_dimensions", "train_load", "train_configure",
               "train_pipeline_train", "train_save", "train_report_time",
               "main_after_train", "exit"}
    /\ exitStatus \in {NotExited, EXIT_SUCCESS, EXIT_FAILURE}
    /\ trainResult \in BOOLEAN
    /\ (pc = "exit") <=> (exitStatus # NotExited)

\* ------------------------------------------------- observations of a run
Exited == pc = "exit"

CallIdx(name) == {i \in DOMAIN trace : trace[i].kind = "call" /\ trace[i].name = name}

GetIdx(id) == {i \in CallIdx("get") : trace[i].arg = id}

LogIdx(stream) == {i \in DOMAIN trace : trace[i].kind = "log" /\ trace[i].stream = stream}

IsLog(i, msg) == trace[i].kind = "log" /\ trace[i].msg = msg

UsagePrinted == \E i \in DOMAIN trace : IsLog(i, "grt-lin-reg-tool [options]")

Succeeded(name) == \E i \in CallIdx(name) : trace[i].ret

Failed(name) == \E i \in CallIdx(name) : ~trace[i].ret

GotFilename == \E i \in GetIdx("filename") : trace[i].ret

\* the value written after a flag on the command line, Absent when the flag is not there
ArgOf(key) ==
    IF \E k \in 2..(Len(argv) - 1) : argv[k] = key
    THEN argv[(CHOOSE k \in 2..(Len(argv) - 1) : argv[k] = key) + 1]
    ELSE Absent

IsDecimal(s) == s \in {ToString(n) : n \in 0..MaxUInt}

DimsGiven == IsDecimal(ArgOf("-n")) /\ IsDecimal(ArgOf("-t"))

\* --------------------------------------------------------------- claims

\* C1: in a run with at least one argument after the program name, the exit
\* status is success exactly when the -f filename was retrieved, the load
\* returned success and training returned success; a failed save leaves a
\* warning line and the exit status is still success.
C1_ExitStatus ==
    (Exited /\ argc >= 2) =>
        /\ (exitStatus = EXIT_SUCCESS) <=>
               (GotFilename /\ Succeeded("load") /\ Succeeded("train"))
        /\ Failed("save") =>
               /\ exitStatus = EXIT_SUCCESS
               /\ \E i \in CallIdx("save") : \E w \in LogIdx("warning") : i < w

C1_Witness == Exited /\ argc >= 2 /\ Failed("save") /\ exitStatus = EXIT_SUCCESS

\* C2: with argc < 2 the parser is never created or run and no library call
\* is ever made; the run ends with an error line, the usage text and a
\* failure status.
C2_TooFewArgs ==
    (argc < 2) =>
        /\ ~parser.created
        /\ ~parser.parsed
        /\ \A i \in DOMAIN trace : trace[i].kind # "call"
        /\ pc \in {"main", "exit"}
        /\ Exited =>
              /\ exitStatus = EXIT_FAILURE
              /\ \E i \in LogIdx("error") : IsLog(i, "Not enough input arguments!")
              /\ UsagePrinted

C2_Witness == Exited /\ argc = 1

\* C3: when the parsed arguments hold no filename, train() prints an error
\* and the usage text and returns false with no shape configuration, load,
\* training or save call made, and the process exits with failure.
C3_MissingFilename ==
    (parser.parsed /\ "filename" \notin DOMAIN parser.results) =>
        /\ CallIdx("setInputAndTargetDimensions") = {}
        /\ CallIdx("load") = {}
        /\ CallIdx("train") = {}
        /\ CallIdx("save") = {}
        /\ pc \in {"train_get_filename", "main_after_train", "exit"}
        /\ pc \in {"main_after_train", "exit"} =>
              /\ trainResult = FALSE
              /\ \E e \in LogIdx("error") : \E g \in GetIdx("filename") :
                    /\ g < e
                    /\ \E u \in DOMAIN trace :
                          e < u /\ IsLog(u, "grt-lin-reg-tool [options]")
        /\ Exited => exitStatus = EXIT_FAILURE

C3_Witness ==
    Exited /\ parser.parsed /\ "filename" \notin DOMAIN parser.results
           /\ ArgOf("-n") = "2" /\ ArgOf("--model") # Absent

\* C4: once the load call has returned failure, an error line follows it,
\* training and save are never invoked, and the process exits with failure.
C4_LoadFailure ==
    Failed("load") =>
        /\ CallIdx("train") = {}
        /\ CallIdx("save") = {}
        /\ \E l \in CallIdx("load") : \E e \in LogIdx("error") :
              l < e /\ IsLog(e, "Failed to load training data!")
        /\ pc \in {"main_after_train", "exit"}
        /\ Exited => exitStatus = EXIT_FAILURE

C4_Witness == Exited /\ Failed("load")

\* C5: the path handed to save is the --model value when the flag is given and
\* "linear-regression-model.grt" when it is not; a run without --model fails
\* only when the filename retrieval, the load or the training failed.
C5_ModelPath ==
    /\ \A i \in CallIdx("save") :
          trace[i].arg = (IF ArgOf("--model") # Absent THEN ArgOf("--model")
                                                       ELSE "linear-regression-model.grt")
    /\ (Exited /\ argc >= 2 /\ ArgOf("--model") = Absent /\ exitStatus = EXIT_FAILURE) =>
          ~(GotFilename /\ Succeeded("load") /\ Succeeded("train"))

C5_Witness ==
    /\ Exited
    /\ ArgOf("--model") = Absent
    /\ \E i \in CallIdx("save") : trace[i].arg = "linear-regression-model.grt"

C5_WitnessGiven ==
    Exited /\ \E i \in CallIdx("save") : trace[i].arg = "out.model"

\* C6: once the -n retrieval has run, the dataset shape is pre-configured
\* exactly when both the -n and the -t values are present and are decimal
\* non-negative integers; the configuration call comes before the load call,
\* and in either case the run goes on to the load step.
C6_ShapePreconfigured ==
    (GetIdx("num-input-dimensions") # {}) =>
        /\ (CallIdx("setInputAndTargetDimensions") # {}) <=> DimsGiven
        /\ trainingData.shapeSet <=> DimsGiven
        /\ \A c \in CallIdx("setInputAndTargetDimensions") :
              /\ trace[c].arg = << StrToUInt(ArgOf("-n")), StrToUInt(ArgOf("-t")) >>
              /\ \A l \in CallIdx("load") : c < l
        /\ pc = "train_load" \/ CallIdx("load") # {}

C6_Witness ==
    /\ CallIdx("load") # {}
    /\ CallIdx("setInputAndTargetDimensions") = {}
    /\ ArgOf("-n") = "2"
    /\ ArgOf("-t") = "abc"

C6_WitnessConfigured ==
    CallIdx("load") # {} /\ CallIdx("setInputAndTargetDimensions") # {}

\* C7 (as stated): when training succeeded the run shows train, then the
\* training-time report, then the save attempt, then the save outcome report.
C7_TimeBeforeSave ==
    (Exited /\ Succeeded("train")) =>
        \E t \in CallIdx("train") : \E r \in LogIdx("info") : \E s \in CallIdx("save") :
        \E o \in DOMAIN trace :
            /\ trace[r] = TimeReport(pipeline.trainingTime)
            /\ trace[o] = SaveOutcome(trace[s].ret, modelFilename)
            /\ t < r /\ r < s /\ s < o

\* C7 (amended): when training succeeded the run shows train, then the save
\* attempt, then the save outcome report, then the training-time report, and
\* no training-time report comes before the save attempt.
C7_TimeAfterSave ==
    (Exited /\ Succeeded("train")) =>
        /\ \E t \in CallIdx("train") : \E s \in CallIdx("save") :
           \E o \in DOMAIN trace : \E r \in LogIdx("info") :
              /\ trace[o] = SaveOutcome(trace[s].ret, modelFilename)
              /\ trace[r] = TimeReport(pipeline.trainingTime)
              /\ t < s /\ s < o /\ o < r
        /\ \A r \in LogIdx("info") : \A s \in CallIdx("save") :
              trace[r] = TimeReport(pipeline.trainingTime) => s < r

C7_Witness == Exited /\ Succeeded("train") /\ Failed("save")

ListedCalls == {"parse", "get", "load", "train", "save"}

FatalCall(i) ==
    /\ trace[i].kind = "call"
    /\ \/ trace[i].name \in {"parse", "load", "train"}
       \/ trace[i].name = "get" /\ trace[i].arg = "filename"

NoLaterCall(i) == \A j \in DOMAIN trace : j > i => trace[j].kind # "call"

\* C8 (as stated): the return value of every parse, get, load, train and save
\* call is tested right after the call, and a failure from parsing, filename
\* retrieval, loading or training ends the run in a failure exit with no
\* later call.
C8_AllChecked ==
    Exited =>
        /\ \A i \in DOMAIN trace :
              (trace[i].kind = "call" /\ trace[i].name \in ListedCalls) => trace[i].tested
        /\ \A i \in DOMAIN trace :
              (FatalCall(i) /\ ~trace[i].ret) =>
                  exitStatus = EXIT_FAILURE /\ NoLaterCall(i)

Discarded(i) ==
    \/ trace[i].name = "parse"
    \/ trace[i].name = "get" /\ trace[i].arg = "model-filename"

\* C8 (amended): the return values of the -f, -n and -t retrievals, of load,
\* of train and of save are tested right after the call, those of parse and
\* of the --model retrieval are discarded; a failure from the -f retrieval,
\* loading or training ends the run in a failure exit with no later call.
C8_CheckedExceptParse ==
    /\ \A i \in DOMAIN trace :
          (trace[i].kind = "call" /\ trace[i].name \in ListedCalls) =>
              (trace[i].tested <=> ~Discarded(i))
    /\ \A i \in DOMAIN trace :
          (FatalCall(i) /\ trace[i].name # "parse" /\ ~trace[i].ret) =>
              /\ NoLaterCall(i)
              /\ pc \in {"main_after_train", "exit"}
              /\ trainResult = FALSE
              /\ Exited => exitStatus = EXIT_FAILURE

C8_Witness ==
    /\ Exited
    /\ Failed("parse")
    /\ Failed("train")
    /\ \E i \in GetIdx("model-filename") : ~trace[i].ret

RECURSIVE CallNames(_)
CallNames(tr) ==
    IF tr = << >> THEN << >>
    ELSE IF Head(tr).kind = "call" /\ Head(tr).name \in {"load", "train", "save"}
         THEN << Head(tr).name >> \o CallNames(Tail(tr))
         ELSE CallNames(Tail(tr))

IsPrefix(a, b) == Len(a) <= Len(b) /\ a = SubSeq(b, 1, Len(a))

C9_CallsPrefix ==
    /\ IsPrefix(CallNames(trace), << "load", "train", "save" >>)
    /\ CallIdx("train") # {} => Succeeded("load")
    /\ CallIdx("save") # {} => Succeeded("train")
    /\ (Succeeded("train") /\ pc \in {"train_report_time", "main_after_train", "exit"})
          => Cardinality(CallIdx("save")) = 1

\* C9: the load, train and save calls of a run form a prefix of
\* (load, train, save), each made at most once and only after the previous one
\* returned success, save is made exactly once after a successful training,
\* and every run reaches the exit.
C9_PrefixAndExit == [] C9_CallsPrefix /\ <> Exited

C9_Witness == Exited /\ CallNames(trace) = << "load", "train", "save" >>

\* C10: a failure exit has an error-stream line and the usage text before it;
\* a success exit has neither.
C10_FailureReported ==
    /\ (Exited /\ exitStatus = EXIT_FAILURE) => (LogIdx("error") # {} /\ UsagePrinted)
    /\ (Exited /\ exitStatus = EXIT_SUCCESS) => (LogIdx("error") = {} /\ ~UsagePrinted)

C10_Witness == Exited /\ exitStatus = EXIT_FAILURE /\ Failed("load")

C10_WitnessSuccess == Exited /\ exitStatus = EXIT_SUCCESS

====
